---- MODULE Spec2Model ----
(***************************************************************************)
(* Fixed-point model of the helicopter / winch simulation.                 *)
(*                                                                         *)
(* The program computes in IEEE doubles.  Here every length, position and  *)
(* velocity is an integer count of 1/7000 world units (so that 0.1, 0.06,  *)
(* 0.008, 0.004, 0.15, 0.5 and length / 14 are all whole numbers), angles  *)
(* are counts of 1/7000 radian, and a product with a decimal factor        *)
(* (0.98, 0.85, 0.3, ...) is rounded to the nearest unit, as a double is   *)
(* rounded to the nearest representable value.                             *)
(***************************************************************************)
EXTENDS Integers, Sequences, FiniteSets, TLC

VARIABLES
    collidableMeshes,   \* LayerManager.collidableMeshes: Seq of [mesh, layers]
    rope,               \* a Rope driven directly through its public methods
    anchorPoint,        \* argument of the last Rope.update on rope
    parentVelocity,     \* argument of the last Rope.update on rope
    lastOp,             \* the method that produced this state
    ops,                \* number of method calls made on rope
    prev,               \* rope as it was before the last method call
    relaxErr,           \* summed constraint error after 0..k relaxation passes
    freeFall,           \* damped free-fall recurrence run beside the hook
    controls,           \* Game.controls
    heli,               \* the Helicopter's own fields and its mesh's pose
    matrixWorld,        \* helicopter.mesh.matrixWorld, as the last render left it
    leftRope,           \* Helicopter.leftRope
    rightRope,          \* Helicopter.rightRope
    frames,             \* number of Game.animate frames run
    keyEvents,          \* number of key events delivered
    tick,               \* what the last Helicopter.update saw and did
    upRun,              \* the run of up-only frames since the carrier was at rest
    keys,               \* HelicopterGame.keys
    ropes,              \* HelicopterGame.ropes: the winch flags of each side
    registered,         \* per surface: whether scene code has it registered, its tags
    call,               \* the last use made of the LayerManager, and the one before
    calls               \* number of LayerManager methods called by scene code

ropeVars == <<rope, anchorPoint, parentVelocity, lastOp, ops, prev, relaxErr, freeFall>>

heliVars == <<controls, heli, matrixWorld, leftRope, rightRope, frames, keyEvents,
              tick, upRun>>

gameVars == <<keys, ropes>>

indexVars == <<collidableMeshes, registered, call, calls>>

vars == <<indexVars, ropeVars, heliVars, gameVars>>

-----------------------------------------------------------------------------
(* Arithmetic                                                              *)

\* The element of a singleton.  A name bound over a singleton, x \in {e},
\* stands for the value of e, computed once however often x is used.
The(S) == CHOOSE v \in S : TRUE

\* a / b rounded to the nearest integer (b > 0), halves rounded up
RoundDiv(a, b) ==
    The({(x \div b) + (IF 2 * (x % b) >= b THEN 1 ELSE 0) : x \in {a}})

\* v * (pct / 100): the product with a decimal factor such as 0.98
Scale(v, pct) == RoundDiv(v * pct, 100)

Min(a, b) == The({IF x < y THEN x ELSE y : x \in {a}, y \in {b}})

Max(a, b) == The({IF x > y THEN x ELSE y : x \in {a}, y \in {b}})

Abs(a) == The({IF x < 0 THEN -x ELSE x : x \in {a}})

\* THREE.MathUtils.clamp
Clamp(v, lo, hi) == Max(lo, Min(hi, v))

RECURSIVE Newton(_, _)
\* Newton's iteration from above: the largest x with x * x <= n
Newton(n, x) ==
    The({IF y >= x THEN x ELSE Newton(n, y) : y \in {(x + n \div x) \div 2}})

\* Math.sqrt, rounded to the nearest unit
Sqrt(n) ==
    LET Start(m) == IF m < 10000 THEN 100
                    ELSE IF m < 1000000 THEN 1000
                    ELSE IF m < 100000000 THEN 10000 ELSE 46340
        Root(m) == The({IF m - s * s > s THEN s + 1 ELSE s : s \in {Newton(m, Start(m))}})
    IN  The({IF m = 0 THEN 0 ELSE Root(m) : m \in {n}})

-----------------------------------------------------------------------------
(* THREE.Vector3                                                           *)

Vec(x, y, z) == [x |-> x, y |-> y, z |-> z]

VAdd(a, b) == The({Vec(p.x + q.x, p.y + q.y, p.z + q.z) : p \in {a}, q \in {b}})

VSub(a, b) == The({Vec(p.x - q.x, p.y - q.y, p.z - q.z) : p \in {a}, q \in {b}})

\* Vector3.multiplyScalar by pct / 100
VScale(a, pct) ==
    The({Vec(Scale(p.x, pct), Scale(p.y, pct), Scale(p.z, pct)) : p \in {a}})

\* Vector3.length
VLength(a) == The({Sqrt(p.x * p.x + p.y * p.y + p.z * p.z) : p \in {a}})

\* Vector3.multiplyScalar by the ratio num / den
VRatio(a, num, den) ==
    The({Vec(RoundDiv(p.x * n, d), RoundDiv(p.y * n, d), RoundDiv(p.z * n, d))
            : p \in {a}, n \in {num}, d \in {den}})

-----------------------------------------------------------------------------
(* LayerManager (src/managers/LayerManager.ts, first class)                *)

\* enum CollisionLayer
DEFAULT == 0

GROUND == 1

WALLS == 2

OBSTACLES == 3

PLATFORMS == 4

\* A THREE.Mesh of the scene: a horizontal plane (as Level.createGround's
\* rotated PlaneGeometry) with its top at height top, spanning [xmin, xmax].
Mesh(id, top, xmin, xmax) == [id |-> id, top |-> top, xmin |-> xmin, xmax |-> xmax]

\* LayerManager.getMeshesByLayers: filter, then map to the mesh
getMeshesByLayers(layers) ==
    LET includes(item, layer) == \E k \in 1..Len(item.layers) : item.layers[k] = layer
        some(item) == \E j \in 1..Len(layers) : includes(item, layers[j])
        keep == SelectSeq(collidableMeshes, some)
    IN  [i \in 1..Len(keep) |-> keep[i].mesh]

\* the layers getInPlaneMeshes asks for
InPlaneLayers == <<GROUND, WALLS, OBSTACLES, PLATFORMS>>

\* LayerManager.getInPlaneMeshes
getInPlaneMeshes == getMeshesByLayers(InPlaneLayers)

\* LayerManager.getGroundMeshes
getGroundMeshes == getMeshesByLayers(<<GROUND>>)

\* LayerManager.registerCollidable: push
registerCollidable(registry, mesh, layers) ==
    Append(registry, [mesh |-> mesh, layers |-> layers])

\* an unregisterCollidable that takes out every entry of the mesh
unregisterCollidableEvery(registry, mesh) ==
    LET other(item) == item.mesh # mesh
    IN  SelectSeq(registry, other)

\* LayerManager.unregisterCollidable: findIndex, then splice(index, 1)
unregisterCollidable(registry, mesh) ==
    LET found == {k \in 1..Len(registry) : registry[k].mesh = mesh}
    IN  IF found = {} THEN registry
        ELSE LET index == CHOOSE k \in found : \A j \in found : k <= j
             IN  [k \in 1..(Len(registry) - 1) |->
                    IF k < index THEN registry[k] ELSE registry[k + 1]]

\* LayerManager.clear
clear == <<>>

\* A query that takes the entries it finds out of the registry.
AfterQueryDrained(registry, layers) ==
    LET includes(item, layer) == \E k \in 1..Len(item.layers) : item.layers[k] = layer
        none(item) == ~\E j \in 1..Len(layers) : includes(item, layers[j])
    IN  SelectSeq(registry, none)

\* What getMeshesByLayers leaves of the registry: filter and map build new
\* arrays and write to nothing.
AfterQuery(registry, layers) == registry

\* the mesh argument of a call that takes none
NoMesh == Mesh(0, 0, 0, 0)

\* The record of a use of the LayerManager: what was called, with which mesh
\* and layers, with which result, on which registry, and the use before it.
Called(name, mesh, layers, result) ==
    [name |-> name, mesh |-> mesh, layers |-> layers, result |-> result,
     before |-> collidableMeshes,
     prior |-> [name |-> call.name, layers |-> call.layers, result |-> call.result]]

NoCall ==
    [name |-> "none", mesh |-> NoMesh, layers |-> <<>>, result |-> <<>>,
     before |-> <<>>,
     prior |-> [name |-> "none", layers |-> <<>>, result |-> <<>>]]

\* the surfaces of the scene, by the id of their mesh
MeshIds == {1, 2}

\* What scene code has registered when the registry is as Init takes it: the
\* surfaces with an entry, each with the tags of its entries and the number
\* of registerCollidable calls that made them.
Registrations(registry) ==
    [id \in MeshIds |->
        LET entries == {k \in 1..Len(registry) : registry[k].mesh.id = id}
        IN  [present |-> entries # {},
             times |-> Cardinality(entries),
             tags |-> UNION {{registry[k].layers[j] : j \in 1..Len(registry[k].layers)}
                                : k \in entries}]]

IndexFresh ==
    /\ registered = Registrations(collidableMeshes)
    /\ call = NoCall
    /\ calls = 0

\* Raycaster.intersectObject(mesh, false) for a ray cast straight down from
\* origin: TRUE when the ray meets the mesh; the hit point is at mesh.top.
intersects(origin, mesh) ==
    /\ mesh.xmin <= origin.x
    /\ origin.x <= mesh.xmax
    /\ mesh.top <= origin.y

-----------------------------------------------------------------------------
(* HelicopterGame (src/managers/LayerManager.ts, second class): the winch   *)
(* flags and the key handlers                                              *)

\* createRopes: both flags of a side start false.
NewWinch == [isRetracting |-> FALSE, isExtending |-> FALSE]

\* A key-down that sets its flag and leaves the other alone.
StartRetractingOnly(w) == [w EXCEPT !.isRetracting = TRUE]

StartRetracting(w) == [w EXCEPT !.isRetracting = TRUE, !.isExtending = FALSE]

StartExtending(w) == [w EXCEPT !.isExtending = TRUE, !.isRetracting = FALSE]

\* The switch of the keydown listener.
keydown(rs, code) ==
    CASE code = "KeyQ" -> [rs EXCEPT !.left = StartRetracting(rs.left)]
      [] code = "KeyA" -> [rs EXCEPT !.left = StartExtending(rs.left)]
      [] code = "KeyE" -> [rs EXCEPT !.right = StartRetracting(rs.right)]
      [] code = "KeyD" -> [rs EXCEPT !.right = StartExtending(rs.right)]
      [] OTHER -> rs

\* The switch of the keyup listener.
keyup(rs, code) ==
    CASE code = "KeyQ" -> [rs EXCEPT !.left.isRetracting = FALSE]
      [] code = "KeyA" -> [rs EXCEPT !.left.isExtending = FALSE]
      [] code = "KeyE" -> [rs EXCEPT !.right.isRetracting = FALSE]
      [] code = "KeyD" -> [rs EXCEPT !.right.isExtending = FALSE]
      [] OTHER -> rs

\* updateRopeLength: what the flags of a winch make of its rope in a tick
FlagAction(w) ==
    IF w.isRetracting THEN "retract" ELSE IF w.isExtending THEN "extend" ELSE "idle"

GameConstructed ==
    /\ keys = {}
    /\ ropes = [left |-> NewWinch, right |-> NewWinch]

-----------------------------------------------------------------------------
(* Rope (src/entities/Rope.ts)                                             *)

MIN_LENGTH == 700              \* 0.1

MAX_LENGTH == 21000            \* 3

SEGMENT_COUNT == 15

EXTEND_SPEED == 420            \* 0.06

GRAVITY == 56                  \* 0.008

DAMPING == 98                  \* 0.98, in hundredths

HOOK_MASS == 50                \* 0.5, in hundredths

CONSTRAINT_ITERATIONS == 20

HOOK_MOMENTUM_TRANSFER == 5    \* 0.05, in hundredths

BOUNCE_FACTOR == 30            \* 0.3, in hundredths

FRICTION == 80                 \* 0.8, in hundredths

\* the literal 0.1 of the ground check: ray lift, threshold and rest height
CLEARANCE == 700

\* new THREE.Mesh with mesh.scale.set(1, 0.01, 1): the mesh of a segment, of
\* which the model keeps position and scale.y
NewMesh == [position |-> Vec(0, 0, 0), scaleY |-> 70]

\* new Rope(scene, anchorPoint): every segment at the anchor, at rest
NewRope(anchor) ==
    [ length       |-> MIN_LENGTH,
      targetLength |-> MIN_LENGTH,
      segments     |-> [i \in 1..SEGMENT_COUNT |->
                          [mesh         |-> NewMesh,
                           position     |-> anchor,
                           prevPosition |-> anchor,
                           velocity     |-> Vec(0, 0, 0)]] ]

\* extend with the bound applied before the step instead of after it
ExtendTargetLate(targetLength) == Min(targetLength, MAX_LENGTH) + EXTEND_SPEED

\* Rope.extend: the new targetLength
ExtendTarget(targetLength) == Min(targetLength + EXTEND_SPEED, MAX_LENGTH)

\* retract bounded below by zero instead of MIN_LENGTH
RetractTargetZero(targetLength) == Max(targetLength - EXTEND_SPEED, 0)

\* Rope.retract: the new targetLength
RetractTarget(targetLength) == Max(targetLength - EXTEND_SPEED, MIN_LENGTH)

extend(r) == [r EXCEPT !.targetLength = ExtendTarget(r.targetLength)]

retract(r) == [r EXCEPT !.targetLength = RetractTarget(r.targetLength)]

\* the length ramp without its clamp to targetLength
RampLengthUnclamped(length, targetLength) ==
    IF length < targetLength THEN length + EXTEND_SPEED
    ELSE IF length > targetLength THEN length - EXTEND_SPEED
    ELSE length

\* Rope.update, "Update rope length"
RampLength(length, targetLength) ==
    IF length < targetLength THEN Min(length + EXTEND_SPEED, targetLength)
    ELSE IF length > targetLength THEN Max(length - EXTEND_SPEED, targetLength)
    ELSE length

\* the ground collision decided by the last qualifying mesh of the registry
GroundCollisionLast(segment, meshes) ==
    The({LET origin == Vec(seg.position.x, seg.position.y + CLEARANCE, seg.position.z)
        hits == {k \in 1..Len(meshes) :
                    /\ intersects(origin, meshes[k])
                    /\ seg.position.y - meshes[k].top < CLEARANCE}
    IN  IF hits = {} THEN seg
        ELSE LET last == CHOOSE k \in hits : \A j \in hits : k >= j
                 v == seg.velocity
                 p == [seg.position EXCEPT !.y = meshes[last].top + CLEARANCE]
             IN  IF v.y < 0
                 THEN [seg EXCEPT !.position = p,
                                  !.velocity = Vec(Scale(v.x, FRICTION),
                                                   Scale(-v.y, BOUNCE_FACTOR),
                                                   Scale(v.z, FRICTION))]
                 ELSE [seg EXCEPT !.position = p]
         : seg \in {segment}})

\* Rope.update, ground collision of the terminal segment: the first mesh, in
\* registry order, that the downward ray meets less than the clearance below
\* the segment decides; the others are not looked at.
GroundCollision(segment, meshes) ==
    The({LET origin == Vec(seg.position.x, seg.position.y + CLEARANCE, seg.position.z)
        hits == {k \in 1..Len(meshes) :
                    /\ intersects(origin, meshes[k])
                    /\ seg.position.y - meshes[k].top < CLEARANCE}
    IN  IF hits = {} THEN seg
        ELSE LET first == CHOOSE k \in hits : \A j \in hits : k <= j
                 v == seg.velocity
                 p == [seg.position EXCEPT !.y = meshes[first].top + CLEARANCE]
             IN  IF v.y < 0
                 THEN [seg EXCEPT !.position = p,
                                  !.velocity = Vec(Scale(v.x, FRICTION),
                                                   Scale(-v.y, BOUNCE_FACTOR),
                                                   Scale(v.z, FRICTION))]
                 ELSE [seg EXCEPT !.position = p]
         : seg \in {segment}})

\* the hook integrated like every other segment
IntegrateEqualMass(seg, isHook, pv, meshes) ==
    The({[s1 EXCEPT !.position = VAdd(@, s1.velocity),
                    !.velocity = VScale(@, DAMPING)]
            : s1 \in {[seg EXCEPT !.prevPosition = seg.position,
                                  !.velocity.y = @ - GRAVITY]}})

\* Rope.update, "Update physics for segments": one turn of the loop, i >= 1
Integrate(seg, isHook, pv, meshes) ==
    LET s0 == [seg EXCEPT !.prevPosition = seg.position]
        g == [s0 EXCEPT !.velocity.y = @ - Scale(GRAVITY, HOOK_MASS)]
        m == [g EXCEPT !.velocity = VAdd(@, VScale(pv, HOOK_MOMENTUM_TRANSFER))]
    IN  The({[s1 EXCEPT !.position = VAdd(@, s1.velocity),
                        !.velocity = VScale(@, DAMPING)]
                : s1 \in {IF isHook THEN GroundCollision(m, meshes)
                          ELSE [s0 EXCEPT !.velocity.y = @ - GRAVITY]}})

\* the correction of one adjacent pair: where segment B lands
Corrected(posA, posB, targetDist) ==
    LET Moved(diff, currentDist) ==
            IF currentDist > 0
            THEN VSub(posB, VRatio(diff, currentDist - targetDist, currentDist))
            ELSE posB
    IN  The({The({Moved(diff, currentDist) : currentDist \in {VLength(diff)}})
                : diff \in {VSub(posB, posA)}})

\* a correction shared between both segments of the pair, the anchored one
\* included
PairStepSplit(segs, i, targetDist) ==
    LET landed == Corrected(segs[i].position, segs[i + 1].position, targetDist)
    IN  The({[segs EXCEPT ![i].position = VSub(@, half),
                          ![i + 1].position = VAdd(@, half)]
                : half \in {VRatio(VSub(landed, segs[i + 1].position), 1, 2)}})

\* B moved half of the way to where the correction would put it
PairStepHalf(segs, i, targetDist) ==
    LET landed == Corrected(segs[i].position, segs[i + 1].position, targetDist)
    IN  The({[segs EXCEPT ![i + 1].position = VAdd(@, half)]
                : half \in {VRatio(VSub(landed, segs[i + 1].position), 1, 2)}})

\* one turn of the inner constraint loop: the pair i, i + 1; only B moves
PairStep(segs, i, targetDist) ==
    [segs EXCEPT ![i + 1].position = Corrected(segs[i].position, @, targetDist)]

RECURSIVE Pass(_, _, _, _)
\* the turns of the inner constraint loop for the pairs lo..hi, in order: the
\* pairs of the lower half, then, on what they leave, those of the upper half
Pass(segs, lo, hi, targetDist) ==
    IF lo = hi THEN PairStep(segs, lo, targetDist)
    ELSE The({Pass(lower, (lo + hi) \div 2 + 1, hi, targetDist)
                 : lower \in {Pass(segs, lo, (lo + hi) \div 2, targetDist)}})

\* one iteration of the constraint loop
Iteration(segs, targetDist) == Pass(segs, 1, Len(segs) - 1, targetDist)

RECURSIVE Relax(_, _, _)
\* j >= 1 iterations of the constraint loop, as j \div 2 iterations followed
\* by the rest.  When the first j \div 2 iterations bring segs back to itself,
\* so do the next j \div 2, an iteration being a function of segs, and what is
\* left is one iteration for an odd j and none for an even one.
Relax(segs, j, targetDist) ==
    IF j = 1 THEN Iteration(segs, targetDist)
    ELSE The({IF s # segs THEN Relax(s, j - j \div 2, targetDist)
              ELSE IF j % 2 = 1 THEN Iteration(segs, targetDist)
              ELSE segs
                 : s \in {Relax(segs, j \div 2, targetDist)}})

\* the rest distance taken per segment instead of per pair
SegmentLengthPerSegment(length) == RoundDiv(length, SEGMENT_COUNT)

\* Rope.update, segmentLength / targetDist: the rest distance of a pair
SegmentLength(length) == RoundDiv(length, SEGMENT_COUNT - 1)

\* Rope.update(anchorPoint, parentVelocity) up to the constraint loop
Integrated(r, anchor, pv, meshes) ==
    [i \in 1..SEGMENT_COUNT |->
        IF i = 1 THEN [r.segments[1] EXCEPT !.position = anchor]
        ELSE Integrate(r.segments[i], i = SEGMENT_COUNT, pv, meshes)]

\* the mesh of a segment placed between it and the next one and scaled to
\* their distance, whatever that distance
PlacedUnguarded(mesh, posA, posB) ==
    [position |-> VAdd(posA, VScale(VSub(posB, posA), 50)),
     scaleY |-> VLength(VSub(posB, posA))]

\* Rope.update, "Update segment meshes": one turn of the loop; the mesh is
\* left as it is when the next segment is at distance zero
Placed(mesh, posA, posB) ==
    IF VLength(VSub(posB, posA)) > 0
    THEN [position |-> VAdd(posA, VScale(VSub(posB, posA), 50)),
          scaleY |-> VLength(VSub(posB, posA))]
    ELSE mesh

\* Rope.update, "Update segment meshes": the loop over the pairs
Meshed(segs) ==
    [i \in 1..Len(segs) |->
        IF i < Len(segs)
        THEN [segs[i] EXCEPT !.mesh = Placed(@, segs[i].position,
                                             segs[i + 1].position)]
        ELSE segs[i]]

\* Rope.update(anchorPoint, parentVelocity)
update(r, anchor, pv, meshes) ==
    The({The({[r EXCEPT !.length = length, !.segments = Meshed(relaxed)]
                 : relaxed \in {Relax(segs, CONSTRAINT_ITERATIONS,
                                      SegmentLength(length))}})
            : length \in {RampLength(r.length, r.targetLength)},
              segs \in {Integrated(r, anchor, pv, meshes)}})

-----------------------------------------------------------------------------
(* Quantities observed on a rope                                           *)

RECURSIVE PairError(_, _, _)
\* sum over the adjacent pairs from pair i on of |distance - targetDist|
PairError(segs, i, targetDist) ==
    IF i >= Len(segs) THEN 0
    ELSE Abs(VLength(VSub(segs[i + 1].position, segs[i].position)) - targetDist)
         + PairError(segs, i + 1, targetDist)

RECURSIVE ErrorTrace(_, _, _)
\* the summed pair error after 0, 1, ..., j iterations of the constraint loop
\* (once an iteration moves nothing, the later ones leave the error as it is)
ErrorTrace(segs, j, targetDist) ==
    The({IF j = 0 THEN <<e>>
         ELSE IF s = segs THEN [k \in 1..(j + 1) |-> e]
         ELSE <<e>> \o ErrorTrace(s, j - 1, targetDist)
            : e \in {PairError(segs, 1, targetDist)}, s \in {Iteration(segs, targetDist)}})

\* one tick of damped free fall of the hook, with no rope and no ground
Fall(ff, pvy) ==
    LET v == ff.vy - Scale(GRAVITY, HOOK_MASS) + Scale(pvy, HOOK_MOMENTUM_TRANSFER)
    IN  [y |-> ff.y + v, vy |-> Scale(v, DAMPING)]

RECURSIVE FallN(_, _)
\* n ticks of it, as n \div 2 ticks followed by the rest
FallN(ff, n) ==
    IF n = 0 THEN ff
    ELSE IF n = 1 THEN Fall(ff, 0)
    ELSE The({FallN(g, n - n \div 2) : g \in {FallN(ff, n \div 2)}})

Hook(r) == r.segments[SEGMENT_COUNT]

-----------------------------------------------------------------------------
(* Game controls (src/game.ts)                                             *)

ControlNames ==
    {"up", "down", "left", "right", "q", "w", "e", "a", "s", "d", "z", "x", "c", "space"}

NoControls == [k \in ControlNames |-> FALSE]

\* The switch of Game.updateControl: the control a key code is bound to.
ControlOf(code) ==
    CASE code = "ArrowUp" -> "up"
      [] code = "ArrowDown" -> "down"
      [] code = "ArrowLeft" -> "left"
      [] code = "ArrowRight" -> "right"
      [] code = "KeyQ" -> "q"
      [] code = "KeyW" -> "w"
      [] code = "KeyE" -> "e"
      [] code = "KeyA" -> "a"
      [] code = "KeyS" -> "s"
      [] code = "KeyD" -> "d"
      [] code = "KeyZ" -> "z"
      [] code = "KeyX" -> "x"
      [] code = "KeyC" -> "c"
      [] code = "Space" -> "space"
      [] OTHER -> "none"

updateControl(c, code, isPressed) ==
    IF ControlOf(code) \in ControlNames
    THEN [c EXCEPT ![ControlOf(code)] = isPressed]
    ELSE c

-----------------------------------------------------------------------------
(* Helicopter (src/entities/Helicopter.ts)                                 *)

\* one world unit, one radian
Unit == 7 * 1000

ROPE_OFFSET == 7000                \* 1

INITIAL_HEIGHT == 35000            \* 5

HOVER_VARIANCE == 700              \* 0.1

MAX_HORIZONTAL_SPEED == 7000       \* 1.0

MAX_VERTICAL_SPEED == 7000         \* 1.0

HORIZONTAL_ACCELERATION == 28      \* 0.004

VERTICAL_ACCELERATION == 56        \* 0.008 (declared, never read)

HORIZONTAL_DAMPING == 98           \* 0.98, in hundredths

VERTICAL_DAMPING == 85             \* 0.85, in hundredths

HEIGHT_CHANGE_SPEED == 1050        \* 0.15

MIN_HEIGHT == 3500                 \* 0.5

MAX_ROLL_ANGLE == 2100             \* 0.3 rad

ROLL_RESPONSE == 15

\* the ray starts 2 above the carrier
RAY_LIFT == 14000

\* time * HOVER_SPEED is kept as a phase in quarter turns: a frame either
\* leaves the phase where it was (an ordinary frame moves the hover offset by
\* far less than one unit) or advances it by a quarter turn (the clock delta
\* after the page was suspended).
QuarterTurns == 4

HoverSine(phase) == CASE phase = 1 -> 1 [] phase = 3 -> -1 [] OTHER -> 0

HoverOffset(phase) == HoverSine(phase) * HOVER_VARIANCE

\* Sine and cosine of an angle of at most a radian, by their Taylor
\* polynomials; argument and result in 1/7000.
Sin(r) == r - RoundDiv(RoundDiv(r * r, Unit) * r, 6 * Unit)

Cos(r) ==
    LET r2 == RoundDiv(r * r, Unit)
    IN  Unit - RoundDiv(r2, 2) + RoundDiv(r2 * r2, 24 * Unit)

\* THREE.MathUtils.lerp with the factor in hundredths.
Lerp(x, y, pct) == x + Scale(y - x, pct)

\* A pose is what a matrixWorld is composed from: position and the Euler
\* angles about x and z (the program never turns the carrier about y).
Pose(position, rx, rz) == [position |-> position, rx |-> rx, rz |-> rz]

IdentityPose == Pose(Vec(0, 0, 0), 0, 0)

\* Vector3.applyMatrix4 for the matrix composed from a pose (Euler order XYZ).
applyMatrix4(v, pose) ==
    LET x1 == RoundDiv(v.x * Cos(pose.rz) - v.y * Sin(pose.rz), Unit)
        y1 == RoundDiv(v.x * Sin(pose.rz) + v.y * Cos(pose.rz), Unit)
        y2 == RoundDiv(y1 * Cos(pose.rx) - v.z * Sin(pose.rx), Unit)
        z2 == RoundDiv(y1 * Sin(pose.rx) + v.z * Cos(pose.rx), Unit)
    IN  VAdd(Vec(x1, y2, z2), pose.position)

NewHelicopter ==
    [position |-> Vec(0, INITIAL_HEIGHT, 0),
     velocity |-> Vec(0, 0, 0),
     acceleration |-> Vec(0, 0, 0),
     targetHeight |-> INITIAL_HEIGHT,
     time |-> 0,
     currentRoll |-> 0,
     rotation |-> [x |-> 0, z |-> 0]]

AccelerationX(c, vx) ==
    IF c.left THEN -HORIZONTAL_ACCELERATION
    ELSE IF c.right THEN HORIZONTAL_ACCELERATION
    ELSE -Scale(vx, 10)

\* The up branch adding the wrong constant.
TargetHeightStepSlow(c, targetHeight) ==
    Max(MIN_HEIGHT,
        IF c.up THEN targetHeight + VERTICAL_ACCELERATION
        ELSE IF c.down /\ targetHeight > MIN_HEIGHT THEN targetHeight - HEIGHT_CHANGE_SPEED
        ELSE targetHeight)

\* Lines 119-132: the target height after the vertical controls.
TargetHeightStep(c, targetHeight) ==
    Max(MIN_HEIGHT,
        IF c.up THEN targetHeight + HEIGHT_CHANGE_SPEED
        ELSE IF c.down /\ targetHeight > MIN_HEIGHT THEN targetHeight - HEIGHT_CHANGE_SPEED
        ELSE targetHeight)

RECURSIVE HighestHit(_, _, _, _)
\* Lines 166-174: the highest first hit of the downward ray over the meshes.
HighestHit(origin, meshes, i, groundHeight) ==
    IF i > Len(meshes) THEN groundHeight
    ELSE HighestHit(origin, meshes, i + 1,
                    IF intersects(origin, meshes[i])
                    THEN Max(groundHeight, meshes[i].top)
                    ELSE groundHeight)

\* the ground height taken as 0 until a surface is hit
GroundHeightFromZero(position, meshes) ==
    HighestHit(Vec(position.x, position.y + RAY_LIFT, position.z), meshes, 1, 0)

\* Lines 161-174: let groundHeight = this.MIN_HEIGHT, then the loop.
GroundHeight(position, meshes) ==
    HighestHit(Vec(position.x, position.y + RAY_LIFT, position.z), meshes, 1, MIN_HEIGHT)

\* The collision response leaving the vertical velocity as it was.
CollisionResponseKeepsVelocity(h, nextY, groundHeight) ==
    IF nextY <= groundHeight + MIN_HEIGHT
    THEN [h EXCEPT !.position.y = groundHeight + MIN_HEIGHT,
                   !.targetHeight = groundHeight + MIN_HEIGHT]
    ELSE [h EXCEPT !.position.y = nextY]

\* The collision response leaving the target height where the controls put it.
CollisionResponseKeepsTarget(h, nextY, groundHeight) ==
    IF nextY <= groundHeight + MIN_HEIGHT
    THEN [h EXCEPT !.position.y = groundHeight + MIN_HEIGHT,
                   !.velocity.y = 0]
    ELSE [h EXCEPT !.position.y = nextY]

\* The collision response committing the next height it found too low.
CollisionResponseSinks(h, nextY, groundHeight) ==
    IF nextY <= groundHeight + MIN_HEIGHT
    THEN [h EXCEPT !.position.y = nextY,
                   !.velocity.y = 0,
                   !.targetHeight = groundHeight + MIN_HEIGHT]
    ELSE [h EXCEPT !.position.y = nextY]

\* Lines 177-183.
CollisionResponse(h, nextY, groundHeight) ==
    IF nextY <= groundHeight + MIN_HEIGHT
    THEN [h EXCEPT !.position.y = groundHeight + MIN_HEIGHT,
                   !.velocity.y = 0,
                   !.targetHeight = groundHeight + MIN_HEIGHT]
    ELSE [h EXCEPT !.position.y = nextY]

\* The velocity damped but not limited.
SteeredUnclamped(h, c, dt) ==
    LET time == (h.time + dt) % QuarterTurns
        ax == AccelerationX(c, h.velocity.x)
        target == TargetHeightStep(c, h.targetHeight)
        ay == Scale(target + HoverOffset(time) - h.position.y, 10)
        acc == Vec(ax, ay, h.acceleration.z)
        v == VAdd(h.velocity, acc)
    IN  [h EXCEPT !.time = time,
                  !.targetHeight = target,
                  !.acceleration = acc,
                  !.velocity = Vec(Scale(v.x, HORIZONTAL_DAMPING),
                                   Scale(v.y, VERTICAL_DAMPING),
                                   v.z)]

\* Lines 100-155: clock, controls, target height, acceleration, velocity.
Steered(h, c, dt) ==
    LET time == (h.time + dt) % QuarterTurns
        ax == AccelerationX(c, h.velocity.x)
        target == TargetHeightStep(c, h.targetHeight)
        ay == Scale(target + HoverOffset(time) - h.position.y, 10)
        acc == Vec(ax, ay, h.acceleration.z)
        v == VAdd(h.velocity, acc)
    IN  [h EXCEPT !.time = time,
                  !.targetHeight = target,
                  !.acceleration = acc,
                  !.velocity = Vec(Clamp(Scale(v.x, HORIZONTAL_DAMPING),
                                         -MAX_HORIZONTAL_SPEED, MAX_HORIZONTAL_SPEED),
                                   Clamp(Scale(v.y, VERTICAL_DAMPING),
                                         -MAX_VERTICAL_SPEED, MAX_VERTICAL_SPEED),
                                   v.z)]

\* the roll set to its clamped target at once
BankedSnaps(h, previousVelocityX) ==
    LET targetRoll == -(h.velocity.x - previousVelocityX) * ROLL_RESPONSE
        roll == Clamp(targetRoll, -MAX_ROLL_ANGLE, MAX_ROLL_ANGLE)
        tilt == Lerp(h.rotation.x, Scale(h.velocity.y, 20), 10)
    IN  [h EXCEPT !.position.x = h.position.x + h.velocity.x,
                  !.currentRoll = roll,
                  !.rotation = [x |-> tilt, z |-> roll]]

\* Lines 186-221: horizontal move, roll and tilt.
Banked(h, previousVelocityX) ==
    LET targetRoll == -(h.velocity.x - previousVelocityX) * ROLL_RESPONSE
        roll == Lerp(h.currentRoll, Clamp(targetRoll, -MAX_ROLL_ANGLE, MAX_ROLL_ANGLE), 15)
        tilt == Lerp(h.rotation.x, Scale(h.velocity.y, 20), 10)
    IN  [h EXCEPT !.position.x = h.position.x + h.velocity.x,
                  !.currentRoll = roll,
                  !.rotation = [x |-> tilt, z |-> roll]]

\* Lines 95-221: the carrier's own part of Helicopter.update.
Flown(h, c, dt, meshes) ==
    The({Banked(landed, h.velocity.x)
            : landed \in {The({CollisionResponse(s, h.position.y + s.velocity.y,
                                                 GroundHeight(h.position, meshes))
                                  : s \in {Steered(h, c, dt)}})}})

\* Line 97: the velocity kept for the ropes, cloned before the tick changes it.
\* The one read after the tick's velocity update instead.
helicopterVelocityLate(before, after) == after.velocity

helicopterVelocity(before, after) == before.velocity

\* Lines 234-244 for one rope: the method the held keys call on it
IntentAction(retractKey, extendKey) ==
    IF retractKey THEN "retract" ELSE IF extendKey THEN "extend" ELSE "idle"

\* The extend key tested before the retract key.
WinchedExtendFirst(r, retractKey, extendKey, anchor, pv, meshes) ==
    update(IF extendKey THEN extend(r) ELSE IF retractKey THEN retract(r) ELSE r,
           anchor, pv, meshes)

\* The extend key calling extend() twice in a tick.
WinchedTwice(r, retractKey, extendKey, anchor, pv, meshes) ==
    update(IF retractKey THEN retract(r)
           ELSE IF extendKey THEN extend(extend(r)) ELSE r,
           anchor, pv, meshes)

\* Lines 234-248 for one rope: winch control, then the rope's update.
Winched(r, retractKey, extendKey, anchor, pv, meshes) ==
    update(IF retractKey THEN retract(r) ELSE IF extendKey THEN extend(r) ELSE r,
           anchor, pv, meshes)

LeftAnchor(pose) == applyMatrix4(Vec(-ROPE_OFFSET, 0, 0), pose)

RightAnchor(pose) == applyMatrix4(Vec(ROPE_OFFSET, 0, 0), pose)

\* Object3D.updateMatrixWorld, run by renderer.render.
PoseOf(h) == Pose(h.position, h.rotation.x, h.rotation.z)

NoTick ==
    [controls |-> NoControls,
     before |-> NewHelicopter,
     helicopterVelocity |-> Vec(0, 0, 0),
     leftBefore |-> NewRope(Vec(-ROPE_OFFSET, 0, 0)),
     rightBefore |-> NewRope(Vec(ROPE_OFFSET, 0, 0)),
     nextY |-> INITIAL_HEIGHT,
     groundHeight |-> MIN_HEIGHT,
     collided |-> FALSE,
     leftAnchor |-> Vec(-ROPE_OFFSET, 0, 0),
     rightAnchor |-> Vec(ROPE_OFFSET, 0, 0),
     flags |-> [left |-> NewWinch, right |-> NewWinch]]

OnlyUp(c) == c = [NoControls EXCEPT !.up = TRUE]

AtRest(h) == h.velocity = Vec(0, 0, 0)

NoRun(h) == [active |-> AtRest(h), n |-> 0, base |-> h.targetHeight, clamped |-> FALSE]

\* What the constructors of Game and Helicopter leave.
HeliConstructed ==
    /\ controls = NoControls
    /\ heli = NewHelicopter
    /\ matrixWorld = IdentityPose
    /\ leftRope = NewRope(Vec(-ROPE_OFFSET, 0, 0))
    /\ rightRope = NewRope(Vec(ROPE_OFFSET, 0, 0))
    /\ frames = 0
    /\ keyEvents = 0
    /\ tick = NoTick
    /\ upRun = NoRun(NewHelicopter)

-----------------------------------------------------------------------------
(* A rope driven through its public methods                                *)

\* most method calls made on the rope in one behaviour
MaxOps == 3

\* the number of extend() calls that take targetLength from MIN_LENGTH to
\* the last value below MAX_LENGTH
FullRamp == (MAX_LENGTH - MIN_LENGTH) \div EXTEND_SPEED

\* where the rope is constructed
Anchor0 == Vec(0, 0, 0)

\* the carrier's gravity-sized step sideways
Side == 5 * GRAVITY

\* (anchorPoint, parentVelocity) pairs handed to update: the carrier at rest,
\* sinking by the rope's own first gravity step, pushed sideways at rest, and
\* moving sideways and down
Inputs ==
    { <<Anchor0, Vec(0, 0, 0)>>,
      <<Vec(0, -GRAVITY, 0), Vec(0, 0, 0)>>,
      <<Vec(Side, 0, 0), Vec(0, 0, 0)>>,
      <<Vec(Side, -GRAVITY, 0), Vec(Side, -GRAVITY, 0)>> }

Wide == 10 * MAX_LENGTH

\* the registries the rope meets: empty (as Level leaves it), one ground
\* plane under the rope, one plane registered in no in-plane layer
Scenes ==
    { <<>>,
      <<[mesh |-> Mesh(1, -CLEARANCE, -Wide, Wide), layers |-> <<GROUND>>]>>,
      <<[mesh |-> Mesh(1, -CLEARANCE, -Wide, Wide), layers |-> <<DEFAULT>>]>> }

RECURSIVE Repeated(_, _, _, _)
\* the rope after n times (extend(); update()), or n times (retract();
\* update()), the anchor held at Anchor0 by a carrier at rest: n \div 2 times
\* followed by the rest
Repeated(r, n, out, meshes) ==
    IF n = 0 THEN r
    ELSE IF n = 1
    THEN update(IF out THEN extend(r) ELSE retract(r), Anchor0, Vec(0, 0, 0), meshes)
    ELSE The({Repeated(half, n - n \div 2, out, meshes)
                 : half \in {Repeated(r, n \div 2, out, meshes)}})

\* the rope after up times (extend(); update()) and then down times
\* (retract(); update())
Wound(r, up, down, meshes) ==
    The({Repeated(out, down, FALSE, meshes) : out \in {Repeated(r, up, TRUE, meshes)}})

\* the winding histories a behaviour starts from: fresh from the constructor,
\* wound out to just below and to MAX_LENGTH, and wound back in again
Windings == {<<0, 0>>, <<FullRamp, 0>>, <<FullRamp + 1, 0>>, <<FullRamp + 1, FullRamp>>}

RopeInit ==
    /\ collidableMeshes \in Scenes
    /\ \E w \in Windings :
          /\ rope = Wound(NewRope(Anchor0), w[1], w[2], getInPlaneMeshes)
          /\ freeFall = FallN([y |-> Anchor0.y, vy |-> 0], w[1] + w[2])
    /\ anchorPoint = Anchor0
    /\ parentVelocity = Vec(0, 0, 0)
    /\ lastOp = "new"
    /\ ops = 0
    /\ prev = rope
    /\ relaxErr = <<>>
    /\ HeliConstructed
    /\ GameConstructed
    /\ IndexFresh

RopeExtend ==
    /\ ops < MaxOps
    /\ rope' = extend(rope)
    /\ lastOp' = "extend"
    /\ prev' = rope
    /\ ops' = ops + 1
    /\ UNCHANGED <<indexVars, anchorPoint, parentVelocity, relaxErr, freeFall>>
    /\ UNCHANGED <<heliVars, gameVars>>

RopeRetract ==
    /\ ops < MaxOps
    /\ rope' = retract(rope)
    /\ lastOp' = "retract"
    /\ prev' = rope
    /\ ops' = ops + 1
    /\ UNCHANGED <<indexVars, anchorPoint, parentVelocity, relaxErr, freeFall>>
    /\ UNCHANGED <<heliVars, gameVars>>

RopeUpdate ==
    /\ ops < MaxOps
    /\ \E in \in Inputs : LET a == in[1]  pv == in[2] IN
          /\ rope' = update(rope, a, pv, getInPlaneMeshes)
          /\ anchorPoint' = a
          /\ parentVelocity' = pv
          /\ freeFall' = Fall(freeFall, pv.y)
          /\ relaxErr' = ErrorTrace(Integrated(rope, a, pv, getInPlaneMeshes),
                                    CONSTRAINT_ITERATIONS,
                                    SegmentLength(RampLength(rope.length,
                                                             rope.targetLength)))
    /\ prev' = rope
    /\ lastOp' = "update"
    /\ ops' = ops + 1
    /\ collidableMeshes' = AfterQuery(collidableMeshes, InPlaneLayers)
    /\ UNCHANGED <<registered, call, calls, heliVars, gameVars>>

RopeNext == RopeExtend \/ RopeRetract \/ RopeUpdate

RopeSpec == RopeInit /\ [][RopeNext]_vars

-----------------------------------------------------------------------------
(* A rope updated for ever with its winch keys released                    *)

RECURSIVE Stepped(_, _, _)
\* the rope after n calls of extend(), or of retract(), and no update
Stepped(r, n, out) ==
    IF n = 0 THEN r
    ELSE Stepped(IF out THEN extend(r) ELSE retract(r), n - 1, out)

\* the ropes a behaviour of RampSpec starts from: a new rope, a new rope
\* whose target was moved out by two steps and to MAX_LENGTH, and a rope
\* wound out to MAX_LENGTH whose target was moved in by three steps and to
\* MIN_LENGTH
RampStarts ==
    { NewRope(Anchor0),
      Stepped(NewRope(Anchor0), 2, TRUE),
      Stepped(NewRope(Anchor0), FullRamp + 1, TRUE),
      Stepped(Wound(NewRope(Anchor0), FullRamp + 1, 0, <<>>), 3, FALSE),
      Stepped(Wound(NewRope(Anchor0), FullRamp + 1, 0, <<>>), FullRamp + 1, FALSE) }

RampInit ==
    /\ collidableMeshes = <<>>
    /\ rope \in RampStarts
    /\ freeFall = [y |-> Anchor0.y, vy |-> 0]
    /\ anchorPoint = Anchor0
    /\ parentVelocity = Vec(0, 0, 0)
    /\ lastOp = "new"
    /\ ops = 0
    /\ prev = rope
    /\ relaxErr = <<>>
    /\ HeliConstructed
    /\ GameConstructed
    /\ IndexFresh

\* update() under a carrier at rest, with no extend() and no retract() between
\* the calls; the call counter stops at one, and the free-fall height and the
\* relaxation errors kept for comparison are not followed here
RampUpdate ==
    /\ rope' = update(rope, Anchor0, Vec(0, 0, 0), getInPlaneMeshes)
    /\ anchorPoint' = Anchor0
    /\ parentVelocity' = Vec(0, 0, 0)
    /\ prev' = rope
    /\ lastOp' = "update"
    /\ ops' = 1
    /\ collidableMeshes' = AfterQuery(collidableMeshes, InPlaneLayers)
    /\ UNCHANGED <<registered, call, calls, freeFall, relaxErr, heliVars, gameVars>>

RampNext == RampUpdate

\* Helicopter.update calls update() on both ropes in every frame, and
\* requestAnimationFrame re-arms the frame.
RampSpec == RampInit /\ [][RampNext]_vars /\ WF_vars(RampUpdate)

-----------------------------------------------------------------------------
(* A rope updated over stacked surfaces                                    *)

\* most update calls made on the rope in one behaviour of HookSpec
MaxHookOps == 3

\* wide surfaces around the height the rope is constructed at: half the
\* clearance below it, half the clearance above it, and far below it
Lower == [mesh |-> Mesh(1, -(CLEARANCE \div 2), -Wide, Wide), layers |-> <<GROUND>>]

Upper == [mesh |-> Mesh(2, CLEARANCE \div 2, -Wide, Wide), layers |-> <<PLATFORMS>>]

Far == [mesh |-> Mesh(1, -3 * Unit, -Wide, Wide), layers |-> <<GROUND>>]

\* the registries of HookSpec: the two near surfaces registered in either
\* order, and the far one registered before the upper one
HookScenes == {<<Lower, Upper>>, <<Upper, Lower>>, <<Far, Upper>>}

\* (anchorPoint, parentVelocity) pairs handed to update: the carrier at rest,
\* climbing at its steady rate, and moving sideways and down
HookInputs ==
    { <<Anchor0, Vec(0, 0, 0)>>,
      <<Anchor0, Vec(0, HEIGHT_CHANGE_SPEED, 0)>>,
      <<Vec(Side, -GRAVITY, 0), Vec(Side, -GRAVITY, 0)>> }

\* the winding histories a behaviour of HookSpec starts from
HookWindings == {<<0, 0>>, <<1, 0>>}

HookInit ==
    /\ collidableMeshes \in HookScenes
    /\ \E w \in HookWindings :
          /\ rope = Wound(NewRope(Anchor0), w[1], w[2], getInPlaneMeshes)
          /\ freeFall = FallN([y |-> Anchor0.y, vy |-> 0], w[1] + w[2])
    /\ anchorPoint = Anchor0
    /\ parentVelocity = Vec(0, 0, 0)
    /\ lastOp = "new"
    /\ ops = 0
    /\ prev = rope
    /\ relaxErr = <<>>
    /\ HeliConstructed
    /\ GameConstructed
    /\ IndexFresh

HookUpdate ==
    /\ ops < MaxHookOps
    /\ \E in \in HookInputs : LET a == in[1]  pv == in[2] IN
          /\ rope' = update(rope, a, pv, getInPlaneMeshes)
          /\ anchorPoint' = a
          /\ parentVelocity' = pv
          /\ freeFall' = Fall(freeFall, pv.y)
          /\ relaxErr' = ErrorTrace(Integrated(rope, a, pv, getInPlaneMeshes),
                                    CONSTRAINT_ITERATIONS,
                                    SegmentLength(RampLength(rope.length,
                                                             rope.targetLength)))
    /\ prev' = rope
    /\ lastOp' = "update"
    /\ ops' = ops + 1
    /\ collidableMeshes' = AfterQuery(collidableMeshes, InPlaneLayers)
    /\ UNCHANGED <<registered, call, calls, heliVars, gameVars>>

HookNext == HookUpdate

HookSpec == HookInit /\ [][HookNext]_vars

-----------------------------------------------------------------------------
(* The game loop (src/game.ts) driving the helicopter                      *)

\* most frames in one behaviour of HeliSpec
MaxFrames == 3

\* most key events in one behaviour of HeliSpec
MaxKeyEvents == 2

\* the key codes pressed and released
Codes == {"ArrowUp", "ArrowDown", "ArrowLeft", "KeyQ", "KeyA", "KeyF"}

\* clock deltas of HeliSpec, in quarter turns of the hover phase: its frames
\* sample the hover at its extremes and zero crossings (the frames of LiveSpec
\* are the ordinary ones, which leave the phase where it was)
Deltas == {1}

\* Registries for the carrier: nothing registered (as Level.ts leaves it), or a
\* wide platform on the GROUND layer 0.6 or 0.4 below the spawn height, or
\* one at the height of the level's ground plane.
Platform(top) == <<[mesh |-> Mesh(1, top, -Wide, Wide), layers |-> <<GROUND>>]>>

HeliScenes ==
    {<<>>, Platform(INITIAL_HEIGHT - 4200), Platform(INITIAL_HEIGHT - 2800),
     Platform(-2 * Unit)}

\* The rope driven on its own is not part of a game.
RopeIdle ==
    /\ rope = NewRope(Anchor0)
    /\ anchorPoint = Anchor0
    /\ parentVelocity = Vec(0, 0, 0)
    /\ lastOp = "new"
    /\ ops = 0
    /\ prev = rope
    /\ relaxErr = <<>>
    /\ freeFall = [y |-> Anchor0.y, vy |-> 0]

\* One call of Game.animate: Helicopter.update, then the render that
\* refreshes the carrier's matrixWorld.
Frame(dt) ==
    LET meshes == getInPlaneMeshes
        flown == Flown(heli, controls, dt, meshes)
        nextY == heli.position.y + Steered(heli, controls, dt).velocity.y
        groundHeight == GroundHeight(heli.position, meshes)
        collided == nextY <= groundHeight + MIN_HEIGHT
        leftAnchor == LeftAnchor(matrixWorld)
        rightAnchor == RightAnchor(matrixWorld)
        pv == helicopterVelocity(heli, flown)
    IN  /\ heli' = flown
        /\ leftRope' = Winched(leftRope, controls.q, controls.a, leftAnchor,
                               pv, meshes)
        /\ rightRope' = Winched(rightRope, controls.e, controls.d, rightAnchor,
                                pv, meshes)
        /\ matrixWorld' = PoseOf(flown)
        /\ tick' = [controls |-> controls,
                    before |-> heli,
                    helicopterVelocity |-> pv,
                    leftBefore |-> leftRope,
                    rightBefore |-> rightRope,
                    nextY |-> nextY,
                    groundHeight |-> groundHeight,
                    collided |-> collided,
                    leftAnchor |-> leftAnchor,
                    rightAnchor |-> rightAnchor,
                    flags |-> ropes]
        /\ upRun' = IF upRun.active /\ OnlyUp(controls)
                    THEN [upRun EXCEPT !.n = upRun.n + 1,
                                       !.clamped = upRun.clamped \/ collided]
                    ELSE NoRun(flown)
        /\ collidableMeshes' = AfterQuery(collidableMeshes, InPlaneLayers)
        /\ call' = Called("tick", NoMesh, InPlaneLayers, meshes)
        /\ UNCHANGED <<registered, calls, controls, keyEvents, ropeVars, gameVars>>

HeliInit ==
    /\ collidableMeshes \in HeliScenes
    /\ HeliConstructed
    /\ RopeIdle
    /\ GameConstructed
    /\ IndexFresh

KeyDown ==
    /\ keyEvents < MaxKeyEvents
    /\ \E code \in Codes : controls' = updateControl(controls, code, TRUE)
    /\ keyEvents' = keyEvents + 1
    /\ UNCHANGED <<indexVars, heli, matrixWorld, leftRope, rightRope, frames,
                   tick, upRun, ropeVars, gameVars>>

KeyUp ==
    /\ keyEvents < MaxKeyEvents
    /\ \E code \in Codes : controls' = updateControl(controls, code, FALSE)
    /\ keyEvents' = keyEvents + 1
    /\ UNCHANGED <<indexVars, heli, matrixWorld, leftRope, rightRope, frames,
                   tick, upRun, ropeVars, gameVars>>

Animate ==
    /\ frames < MaxFrames
    /\ \E dt \in Deltas : Frame(dt)
    /\ frames' = frames + 1

HeliNext == KeyDown \/ KeyUp \/ Animate

HeliSpec == HeliInit /\ [][HeliNext]_vars

LiveInit ==
    /\ collidableMeshes \in HeliScenes
    /\ HeliConstructed
    /\ RopeIdle
    /\ GameConstructed
    /\ IndexFresh

Hold ==
    /\ frames = 0
    /\ keyEvents = 0
    /\ controls' = updateControl(controls, "ArrowDown", TRUE)
    /\ keyEvents' = 1
    /\ UNCHANGED <<indexVars, heli, matrixWorld, leftRope, rightRope, frames,
                   tick, upRun, ropeVars, gameVars>>

\* Frames follow one another for ever; the frame counter stops at one.
Loop ==
    /\ Frame(0)
    /\ frames' = 1

LiveNext == Hold \/ Loop

\* requestAnimationFrame re-arms animate in every frame, so a frame that can
\* run does run.
LiveSpec == LiveInit /\ [][LiveNext]_vars /\ WF_vars(Loop)

-----------------------------------------------------------------------------
(* The game loop taken up in mid flight                                    *)

\* most frames in one behaviour of FlightSpec
MaxFlightFrames == 2

\* heights, speeds per axis and target heights of the carrier in flight: the
\* spawn height and twice it; at rest and at either speed limit; the lowest
\* target, the spawn height and a target far above the carrier
FlightHeights == {INITIAL_HEIGHT, 2 * INITIAL_HEIGHT}

FlightSpeeds(limit) == {-limit, 0, limit}

FlightTargets == {MIN_HEIGHT, INITIAL_HEIGHT, 4 * INITIAL_HEIGHT}

\* the movement keys held through the frames
FlightControls ==
    {NoControls,
     [NoControls EXCEPT !.up = TRUE, !.left = TRUE],
     [NoControls EXCEPT !.down = TRUE, !.right = TRUE],
     [NoControls EXCEPT !.up = TRUE, !.down = TRUE]}

\* The carrier somewhere in a game: its velocity within the limits every
\* tick leaves it in, its pose as the last render took it.
FlightInit ==
    /\ collidableMeshes \in HeliScenes
    /\ controls \in FlightControls
    /\ \E y \in FlightHeights, vx \in FlightSpeeds(MAX_HORIZONTAL_SPEED),
          vy \in FlightSpeeds(MAX_VERTICAL_SPEED), target \in FlightTargets :
          heli = [NewHelicopter EXCEPT !.position.y = y,
                                       !.velocity = Vec(vx, vy, 0),
                                       !.targetHeight = target]
    /\ matrixWorld = PoseOf(heli)
    /\ leftRope = NewRope(LeftAnchor(matrixWorld))
    /\ rightRope = NewRope(RightAnchor(matrixWorld))
    /\ frames = 0
    /\ keyEvents = 0
    /\ tick = NoTick
    /\ upRun = NoRun(heli)
    /\ RopeIdle
    /\ GameConstructed
    /\ IndexFresh

Fly ==
    /\ frames < MaxFlightFrames
    /\ \E dt \in Deltas : Frame(dt)
    /\ frames' = frames + 1

FlightNext == Fly

FlightSpec == FlightInit /\ [][FlightNext]_vars

-----------------------------------------------------------------------------
(* Scene code using the LayerManager, and the game loop reading it         *)

\* most LayerManager methods called in one behaviour of IndexSpec
MaxCalls == 3

\* most frames in one behaviour of IndexSpec
MaxIndexFrames == 1

\* the surfaces of the scene: a ground plane under the ropes and a platform
\* 0.4 below the carrier's spawn height
Surface(id) ==
    IF id = 1 THEN Mesh(1, -CLEARANCE, -Wide, Wide)
    ELSE Mesh(2, INITIAL_HEIGHT - 2800, -Wide, Wide)

\* the registrations scene code makes: a surface and its layers array
Registering ==
    {<<1, <<PLATFORMS, GROUND>>>>, <<1, <<DEFAULT>>>>,
     <<2, <<WALLS, OBSTACLES>>>>, <<2, <<>>>>}

\* the layers arrays asked for: getInPlaneMeshes and getGroundMeshes
QueryLists == {InPlaneLayers, <<GROUND>>}

\* the tags of a layers array
TagsOf(layers) == {layers[j] : j \in 1..Len(layers)}

\* private collidableMeshes = []
IndexInit ==
    /\ collidableMeshes = <<>>
    /\ HeliConstructed
    /\ RopeIdle
    /\ GameConstructed
    /\ IndexFresh

Register ==
    /\ calls < MaxCalls
    /\ \E r \in Registering : LET id == r[1]  layers == r[2] IN
          /\ collidableMeshes' = registerCollidable(collidableMeshes, Surface(id), layers)
          /\ registered' = [registered EXCEPT ![id] =
                                [present |-> TRUE,
                                 times |-> @.times + 1,
                                 tags |-> (IF @.present THEN @.tags ELSE {})
                                              \cup TagsOf(layers)]]
          /\ call' = Called("register", Surface(id), layers, <<>>)
    /\ calls' = calls + 1
    /\ UNCHANGED <<ropeVars, heliVars, gameVars>>

Unregister ==
    /\ calls < MaxCalls
    /\ \E id \in MeshIds :
          /\ collidableMeshes' = unregisterCollidable(collidableMeshes, Surface(id))
          /\ registered' = [registered EXCEPT ![id].present = FALSE,
                                              ![id].tags = {}]
          /\ call' = Called("unregister", Surface(id), <<>>, <<>>)
    /\ calls' = calls + 1
    /\ UNCHANGED <<ropeVars, heliVars, gameVars>>

Clear ==
    /\ calls < MaxCalls
    /\ collidableMeshes' = clear
    /\ registered' = [id \in MeshIds |-> [present |-> FALSE, times |-> 0, tags |-> {}]]
    /\ call' = Called("clear", NoMesh, <<>>, <<>>)
    /\ calls' = calls + 1
    /\ UNCHANGED <<ropeVars, heliVars, gameVars>>

Query ==
    /\ calls < MaxCalls
    /\ \E layers \in QueryLists :
          /\ collidableMeshes' = AfterQuery(collidableMeshes, layers)
          /\ call' = Called("query", NoMesh, layers, getMeshesByLayers(layers))
    /\ calls' = calls + 1
    /\ UNCHANGED <<registered, ropeVars, heliVars, gameVars>>

Tick ==
    /\ frames < MaxIndexFrames
    /\ \E dt \in Deltas : Frame(dt)
    /\ frames' = frames + 1

IndexNext == Register \/ Unregister \/ Clear \/ Query \/ Tick

IndexSpec == IndexInit /\ [][IndexNext]_vars

-----------------------------------------------------------------------------
(* Scene code registering and unregistering surfaces                       *)

\* most LayerManager calls in one behaviour of RegistrySpec
MaxRegistryCalls == 4

\* the registrations scene code makes in RegistrySpec
Reregistering == {<<1, <<GROUND>>>>, <<1, <<DEFAULT>>>>, <<2, <<WALLS>>>>}

RegistryInit ==
    /\ collidableMeshes = <<>>
    /\ HeliConstructed
    /\ RopeIdle
    /\ GameConstructed
    /\ IndexFresh

RegistryRegister ==
    /\ calls < MaxRegistryCalls
    /\ \E r \in Reregistering : LET id == r[1]  layers == r[2] IN
          /\ collidableMeshes' = registerCollidable(collidableMeshes, Surface(id), layers)
          /\ registered' = [registered EXCEPT ![id] =
                                [present |-> TRUE,
                                 times |-> @.times + 1,
                                 tags |-> (IF @.present THEN @.tags ELSE {})
                                              \cup TagsOf(layers)]]
          /\ call' = Called("register", Surface(id), layers, <<>>)
    /\ calls' = calls + 1
    /\ UNCHANGED <<ropeVars, heliVars, gameVars>>

RegistryUnregister ==
    /\ calls < MaxRegistryCalls
    /\ \E id \in MeshIds :
          /\ collidableMeshes' = unregisterCollidable(collidableMeshes, Surface(id))
          /\ registered' = [registered EXCEPT ![id].present = FALSE,
                                              ![id].tags = {}]
          /\ call' = Called("unregister", Surface(id), <<>>, <<>>)
    /\ calls' = calls + 1
    /\ UNCHANGED <<ropeVars, heliVars, gameVars>>

RegistryClear ==
    /\ calls < MaxRegistryCalls
    /\ collidableMeshes' = clear
    /\ registered' = [id \in MeshIds |-> [present |-> FALSE, times |-> 0, tags |-> {}]]
    /\ call' = Called("clear", NoMesh, <<>>, <<>>)
    /\ calls' = calls + 1
    /\ UNCHANGED <<ropeVars, heliVars, gameVars>>

RegistryNext == RegistryRegister \/ RegistryUnregister \/ RegistryClear

RegistrySpec == RegistryInit /\ [][RegistryNext]_vars

-----------------------------------------------------------------------------
(* The game loop with the winch keys                                       *)

\* most frames in one behaviour of WinchSpec
MaxWinchFrames == 2

\* most key events in one behaviour of WinchSpec
MaxWinchKeys == 2

\* the four winch keys and a movement key
WinchCodes == {"KeyQ", "KeyA", "KeyE", "KeyD", "ArrowLeft"}

WinchScenes == {<<>>, Platform(-2 * Unit)}

WinchInit ==
    /\ collidableMeshes \in WinchScenes
    /\ HeliConstructed
    /\ RopeIdle
    /\ GameConstructed
    /\ IndexFresh

WinchKeyDown ==
    /\ keyEvents < MaxWinchKeys
    /\ \E code \in WinchCodes : controls' = updateControl(controls, code, TRUE)
    /\ keyEvents' = keyEvents + 1
    /\ UNCHANGED <<indexVars, heli, matrixWorld, leftRope, rightRope, frames,
                   tick, upRun, ropeVars, gameVars>>

WinchKeyUp ==
    /\ keyEvents < MaxWinchKeys
    /\ \E code \in WinchCodes : controls' = updateControl(controls, code, FALSE)
    /\ keyEvents' = keyEvents + 1
    /\ UNCHANGED <<indexVars, heli, matrixWorld, leftRope, rightRope, frames,
                   tick, upRun, ropeVars, gameVars>>

WinchAnimate ==
    /\ frames < MaxWinchFrames
    /\ \E dt \in Deltas : Frame(dt)
    /\ frames' = frames + 1

WinchNext == WinchKeyDown \/ WinchKeyUp \/ WinchAnimate

WinchSpec == WinchInit /\ [][WinchNext]_vars

-----------------------------------------------------------------------------
(* Key events delivered to the listeners of both games                     *)

\* most frames in one behaviour of DualSpec
MaxDualFrames == 1

\* most key events in one behaviour of DualSpec
MaxDualKeys == 3

\* the four winch keys
DualCodes == {"KeyQ", "KeyA", "KeyE", "KeyD"}

DualInit ==
    /\ collidableMeshes = <<>>
    /\ HeliConstructed
    /\ RopeIdle
    /\ GameConstructed
    /\ IndexFresh

\* one keydown event, heard by the listener of Game and by the listener of
\* HelicopterGame
DualKeyDown ==
    /\ keyEvents < MaxDualKeys
    /\ \E code \in DualCodes :
          /\ controls' = updateControl(controls, code, TRUE)
          /\ keys' = keys \cup {code}
          /\ ropes' = keydown(ropes, code)
    /\ keyEvents' = keyEvents + 1
    /\ UNCHANGED <<indexVars, heli, matrixWorld, leftRope, rightRope, frames,
                   tick, upRun, ropeVars>>

\* one keyup event of a key that is down
DualKeyUp ==
    /\ keyEvents < MaxDualKeys
    /\ \E code \in keys :
          /\ controls' = updateControl(controls, code, FALSE)
          /\ keys' = keys \ {code}
          /\ ropes' = keyup(ropes, code)
    /\ keyEvents' = keyEvents + 1
    /\ UNCHANGED <<indexVars, heli, matrixWorld, leftRope, rightRope, frames,
                   tick, upRun, ropeVars>>

DualAnimate ==
    /\ frames < MaxDualFrames
    /\ \E dt \in Deltas : Frame(dt)
    /\ frames' = frames + 1

DualNext == DualKeyDown \/ DualKeyUp \/ DualAnimate

DualSpec == DualInit /\ [][DualNext]_vars

-----------------------------------------------------------------------------
(* Key events delivered to HelicopterGame                                  *)

\* the key codes of the events: the four winch keys, a movement key and a
\* key the game does not know
GameCodes == {"KeyQ", "KeyA", "KeyE", "KeyD", "ArrowUp", "KeyF"}

KeysInit ==
    /\ collidableMeshes = <<>>
    /\ HeliConstructed
    /\ RopeIdle
    /\ GameConstructed
    /\ IndexFresh

GameKeyDown ==
    /\ \E code \in GameCodes :
          /\ keys' = keys \cup {code}
          /\ ropes' = keydown(ropes, code)
    /\ UNCHANGED <<indexVars, ropeVars, heliVars>>

GameKeyUp ==
    /\ \E code \in GameCodes :
          /\ keys' = keys \ {code}
          /\ ropes' = keyup(ropes, code)
    /\ UNCHANGED <<indexVars, ropeVars, heliVars>>

KeysNext == GameKeyDown \/ GameKeyUp

KeysSpec == KeysInit /\ [][KeysNext]_vars

-----------------------------------------------------------------------------
(* Claims about the rope                                                   *)

\* the largest error a pair distance keeps from the rounding of the arithmetic
Tolerance == 1

\* the small epsilon of ground non-penetration: a tenth of the clearance
Epsilon == CLEARANCE \div 10

Pairs == 1..(SEGMENT_COUNT - 1)

\* the distance between segments i - 1 and i of the code (i and i + 1 here)
PairDistance(i) ==
    VLength(VSub(rope.segments[i + 1].position, rope.segments[i].position))

\* C1: whatever sequence of extend(), retract() and update() calls is made from
\* construction, the current length lies in [MIN_LENGTH, MAX_LENGTH], and one
\* update() changes it by at most EXTEND_SPEED.
C1_LengthBounded ==
    /\ rope.length >= MIN_LENGTH
    /\ rope.length <= MAX_LENGTH
    /\ lastOp = "update" => Abs(rope.length - prev.length) <= EXTEND_SPEED

\* an update that ramps the length up onto MAX_LENGTH
C1_Witness ==
    /\ lastOp = "update"
    /\ rope.length = MAX_LENGTH
    /\ prev.length < MAX_LENGTH

\* C2: after every update(anchorPoint, v) segment 0 is exactly at anchorPoint;
\* no integration step and no relaxation iteration moves it.
C2_AnchorPinned ==
    lastOp = "update" => rope.segments[1].position = anchorPoint

\* an update that moved the anchor away from where segment 0 was, and whose
\* relaxation had pair errors to correct
C2_Witness ==
    /\ lastOp = "update"
    /\ prev.segments[1].position # anchorPoint
    /\ rope.segments[1].position = anchorPoint
    /\ relaxErr[1] > relaxErr[2]

\* C3: targetLength stays in [MIN_LENGTH, MAX_LENGTH]; extend() never lowers
\* it and retract() never raises it; one call changes it by exactly
\* EXTEND_SPEED, or lands on the bound that step would cross.
C3_TargetStep ==
    /\ rope.targetLength >= MIN_LENGTH
    /\ rope.targetLength <= MAX_LENGTH
    /\ lastOp = "extend" =>
          /\ rope.targetLength >= prev.targetLength
          /\ rope.targetLength =
                (IF prev.targetLength + EXTEND_SPEED > MAX_LENGTH
                 THEN MAX_LENGTH ELSE prev.targetLength + EXTEND_SPEED)
    /\ lastOp = "retract" =>
          /\ rope.targetLength <= prev.targetLength
          /\ rope.targetLength =
                (IF prev.targetLength - EXTEND_SPEED < MIN_LENGTH
                 THEN MIN_LENGTH ELSE prev.targetLength - EXTEND_SPEED)

\* a retract() whose full step would cross MIN_LENGTH and that lands on it
C3_Witness ==
    /\ lastOp = "retract"
    /\ prev.targetLength > MIN_LENGTH
    /\ prev.targetLength - EXTEND_SPEED < MIN_LENGTH
    /\ rope.targetLength = MIN_LENGTH

\* C4: extend() at targetLength = MAX_LENGTH and retract() at targetLength =
\* MIN_LENGTH leave targetLength and every other field of the rope as they
\* were, however often the call is repeated.
C4_NoOpAtBound ==
    /\ (lastOp = "extend" /\ prev.targetLength = MAX_LENGTH) => rope = prev
    /\ (lastOp = "retract" /\ prev.targetLength = MIN_LENGTH) => rope = prev

\* extend() called at MAX_LENGTH on a rope that update() has paid out
C4_Witness ==
    /\ lastOp = "extend"
    /\ prev.targetLength = MAX_LENGTH
    /\ prev.length = MAX_LENGTH
    /\ rope = prev

\* C5 as stated: after update every adjacent pair is within the tolerance of
\* length / (SEGMENT_COUNT - 1), and one more iteration never gives a summed
\* (hence mean) pair error larger, beyond the rounding of one tolerance per
\* pair.
C5_AllPairsConverge ==
    lastOp = "update" =>
        /\ \A i \in Pairs :
              Abs((SEGMENT_COUNT - 1) * PairDistance(i) - rope.length)
                  <= (SEGMENT_COUNT - 1) * Tolerance
        /\ \A j \in 1..CONSTRAINT_ITERATIONS :
              relaxErr[j + 1] <= relaxErr[j] + (SEGMENT_COUNT - 1) * Tolerance

\* C5, amended: after update every adjacent pair is within the tolerance of
\* length / (SEGMENT_COUNT - 1) or still at distance zero (the pair the guard
\* skips), and more iterations never give a summed pair error larger, beyond
\* the rounding of one tolerance per pair, than fewer iterations gave.
C5_CorrectedPairsConverge ==
    lastOp = "update" =>
        /\ \A i \in Pairs :
              \/ PairDistance(i) = 0
              \/ Abs((SEGMENT_COUNT - 1) * PairDistance(i) - rope.length)
                     <= (SEGMENT_COUNT - 1) * Tolerance
        /\ \A j \in 1..CONSTRAINT_ITERATIONS :
              \A k \in (j + 1)..(CONSTRAINT_ITERATIONS + 1) :
                  relaxErr[k] <= relaxErr[j] + (SEGMENT_COUNT - 1) * Tolerance

\* an update that leaves one pair coincident and another corrected, the
\* summed error having gone down with the first iteration
C5_Witness ==
    /\ lastOp = "update"
    /\ \E i \in Pairs : PairDistance(i) = 0
    /\ \E i \in Pairs : PairDistance(i) > 0
    /\ relaxErr[2] < relaxErr[1]

\* C6: with a single in-plane surface under the hook, each update leaves the
\* hook no more than a small epsilon below the surface height plus the
\* clearance.
C6_HookAboveGround ==
    (lastOp = "update" /\ Len(getInPlaneMeshes) = 1) =>
        LET surface == getInPlaneMeshes[1]
            hook == Hook(rope).position
        IN  (surface.xmin <= hook.x /\ hook.x <= surface.xmax) =>
                hook.y >= surface.top + CLEARANCE - Epsilon

\* C8 as stated: with an empty collision index the hook's height after T
\* updates is the damped free-fall recurrence applied T times.
C8_HookFreeFalls ==
    collidableMeshes = <<>> => Hook(rope).position.y = freeFall.y

\* C8, amended: with an empty collision index the hook is never clamped and
\* its vertical velocity after T updates is the damped recurrence applied T
\* times; its height is not the free-fall height, relaxation keeping it
\* within the rope's length of the anchor.
C8_HookVelocityFreeFalls ==
    collidableMeshes = <<>> =>
        /\ Hook(rope).velocity.y = freeFall.vy
        /\ GroundCollision(Hook(rope), getInPlaneMeshes) = Hook(rope)
        /\ lastOp = "update" =>
              Abs(Hook(rope).position.y - anchorPoint.y)
                  <= rope.length + (SEGMENT_COUNT - 1) * Tolerance

\* a hook that has fallen for some updates over an empty index and that
\* relaxation holds above its free-fall height
C8_Witness ==
    /\ collidableMeshes = <<>>
    /\ lastOp = "update"
    /\ ops >= 2
    /\ parentVelocity.y # 0
    /\ Hook(rope).velocity.y = freeFall.vy
    /\ Hook(rope).position.y > freeFall.y

\* the velocity of the hook of the rope as it was before the update, once
\* gravity and the carrier's momentum are added to it
HookForced ==
    VAdd([Hook(prev).velocity EXCEPT !.y = @ - Scale(GRAVITY, HOOK_MASS)],
         VScale(parentVelocity, HOOK_MOMENTUM_TRANSFER))

\* the segments of the update just made as they enter the constraint loop
Entering == Integrated(prev, anchorPoint, parentVelocity, getInPlaneMeshes)

\* C19: within one update the terminal segment's ground clamp is applied to
\* its position after that tick's integration (position += velocity), not
\* before it: the hook enters the constraint loop where the collision test,
\* made on the integrated and damped segment, leaves it.
C19_ClampAfterIntegration ==
    lastOp = "update" =>
        LET h == Hook(prev)
            moved == [h EXCEPT !.prevPosition = h.position,
                               !.position = VAdd(h.position, HookForced),
                               !.velocity = VScale(HookForced, DAMPING)]
        IN  Entering[SEGMENT_COUNT] = GroundCollision(moved, getInPlaneMeshes)

\* the places in getInPlaneMeshes() of the surfaces that the ray cast down
\* from the clearance above the hook meets less than the clearance below it
Qualifying ==
    LET p == Hook(prev).position
        meshes == getInPlaneMeshes
    IN  {k \in 1..Len(meshes) :
            /\ meshes[k].xmin <= p.x /\ p.x <= meshes[k].xmax
            /\ meshes[k].top <= p.y + CLEARANCE
            /\ p.y - meshes[k].top < CLEARANCE}

\* C20: ground collision in update touches the terminal segment only; the
\* first surface of the query met less than the clearance below the hook
\* puts the hook's y at the hit height plus the clearance before the
\* velocity is added; iff the hook is falling its vertical velocity becomes
\* -velocity.y * BOUNCE_FACTOR and x and z are scaled by FRICTION; later
\* surfaces are not considered and a hook that is not falling keeps its
\* velocity; with no such surface the hook moves like a free segment.
C20_FirstSurfaceDecides ==
    lastOp = "update" =>
        LET h == Hook(prev)
            v == HookForced
            first == CHOOSE k \in Qualifying : \A j \in Qualifying : k <= j
            w == IF Qualifying # {} /\ v.y < 0
                 THEN Vec(Scale(v.x, FRICTION), Scale(-v.y, BOUNCE_FACTOR),
                          Scale(v.z, FRICTION))
                 ELSE v
            y == IF Qualifying # {} THEN getInPlaneMeshes[first].top + CLEARANCE
                 ELSE h.position.y
        IN  /\ Entering[SEGMENT_COUNT].position
                  = VAdd(Vec(h.position.x, y, h.position.z), w)
            /\ Hook(rope).velocity = VScale(w, DAMPING)
            /\ \A i \in 2..(SEGMENT_COUNT - 1) :
                  LET s == prev.segments[i]
                      u == [s.velocity EXCEPT !.y = @ - GRAVITY]
                  IN  /\ Entering[i].position = VAdd(s.position, u)
                      /\ rope.segments[i].velocity = VScale(u, DAMPING)

\* an update over two surfaces that both qualify, the second of the query
\* the higher one, made on a falling hook that moves sideways
C20_Witness ==
    /\ lastOp = "update"
    /\ Cardinality(Qualifying) = 2
    /\ getInPlaneMeshes[1].top < getInPlaneMeshes[2].top
    /\ HookForced.y < 0
    /\ HookForced.x # 0
    /\ Hook(rope).velocity.y > 0

\* an update in which a surface qualifies under a hook that is not falling
C20_WitnessRising ==
    /\ lastOp = "update"
    /\ Qualifying # {}
    /\ HookForced.y >= 0

\* the length the last update left lies between the length it found and the
\* target, ends included
TowardTarget ==
    lastOp = "update" =>
        \/ prev.length <= rope.length /\ rope.length <= rope.targetLength
        \/ rope.targetLength <= rope.length /\ rope.length <= prev.length

\* C25: with no extend() and no retract() called, after finitely many updates
\* the length equals targetLength and stays equal from then on; each update
\* on the way moves it toward the target and never past it.
C25_LengthReachesTarget ==
    /\ []TowardTarget
    /\ <>[](rope.length = rope.targetLength)

\* an update that took a length that was more than one step above its
\* target down by one step
C25_Witness ==
    /\ lastOp = "update"
    /\ prev.length > rope.targetLength + EXTEND_SPEED
    /\ rope.length = prev.length - EXTEND_SPEED

\* the rest distance of a pair in the update just made
TargetDist == SegmentLength(rope.length)

\* the distance between segments i and i + 1 of segs
Apart(segs, i) == VLength(VSub(segs[i + 1].position, segs[i].position))

\* the distance of pair i when the first iteration of the constraint loop
\* came to it: from the head-side segment as that iteration left it to the
\* tail-side segment as it entered the loop
Met(entering, firstPass, i) ==
    VLength(VSub(entering[i + 1].position, firstPass[i].position))

\* no pair was at distance zero when the first iteration came to it
NoZeroPair(entering, firstPass) ==
    \A i \in Pairs : firstPass[i].position # entering[i + 1].position

\* C26: after an update in whose relaxation no pair was at distance zero,
\* every pair is at length / (SEGMENT_COUNT - 1) already after the first
\* iteration, which leaves the head where the anchor is; the later
\* iterations keep it so, and the hook is no farther from the anchor than
\* the length.  "At" is to the rounding of the arithmetic: one tolerance for
\* the positions, and for the first iteration one more for the distance the
\* correction divides by, which weighs as the rest distance over the
\* distance met.
C26_FirstPassSuffices ==
    lastOp = "update" =>
        \A entering \in {Entering} :
            \A firstPass \in {Iteration(entering, TargetDist)} :
                NoZeroPair(entering, firstPass) =>
                    /\ firstPass[1].position = anchorPoint
                    /\ \A i \in Pairs :
                          \A met \in {Met(entering, firstPass, i)} :
                              Abs(Apart(firstPass, i) - TargetDist) * met
                                  <= Tolerance * (met + TargetDist)
                    /\ \A i \in Pairs : Abs(PairDistance(i) - TargetDist) <= Tolerance
                    /\ VLength(VSub(Hook(rope).position, anchorPoint))
                          <= rope.length + (SEGMENT_COUNT - 1) * Tolerance

\* an update of a rope under a carrier that moved sideways: no pair at
\* distance zero, a pair that entered the constraint loop off its rest
\* distance, and the hook not straight under the anchor
C26_Witness ==
    /\ lastOp = "update"
    /\ \E entering \in {Entering} :
          /\ NoZeroPair(entering, Iteration(entering, TargetDist))
          /\ \E i \in Pairs : Abs(Apart(entering, i) - TargetDist) > Tolerance
    /\ Hook(rope).position.x # anchorPoint.x
    /\ Hook(rope).position.y # anchorPoint.y

\* every coordinate of a segment's position and velocity is a number
Numeric(seg) ==
    \A v \in {seg.position, seg.velocity} : v.x \in Int /\ v.y \in Int /\ v.z \in Int

\* C23: a pair at distance zero gets no positional correction and no update
\* of its mesh: the segments that enter the constraint loop on the anchor,
\* one after the other from the head, are on the anchor when update returns,
\* the mesh of a segment that update leaves on the next one is as it was
\* before the update, and every position and velocity is a number.
C23_ZeroPairsLeftAlone ==
    lastOp = "update" =>
        /\ \A k \in 2..SEGMENT_COUNT :
              (\A j \in 2..k : Entering[j].position = anchorPoint) =>
                  rope.segments[k].position = anchorPoint
        /\ \A i \in 1..(SEGMENT_COUNT - 1) :
              rope.segments[i + 1].position = rope.segments[i].position =>
                  rope.segments[i].mesh = prev.segments[i].mesh
        /\ \A i \in 1..SEGMENT_COUNT : Numeric(rope.segments[i])

\* an update with the anchor where gravity takes the segments of a new rope:
\* the pairs from the head on are at distance zero in the constraint loop,
\* their meshes are as constructed, and the hook is elsewhere
C23_Witness ==
    /\ lastOp = "update"
    /\ Entering[2].position = anchorPoint
    /\ rope.segments[2].position = rope.segments[1].position
    /\ rope.segments[1].mesh = NewMesh
    /\ Hook(rope).position # anchorPoint
    /\ rope.segments[SEGMENT_COUNT - 1].mesh # NewMesh

-----------------------------------------------------------------------------
(* Claims about the carrier                                                *)

\* the height of the registered surface
SurfaceTop == collidableMeshes[1].mesh.top

GroundRegistered == collidableMeshes # <<>>

C9_UpRaisesTarget ==
    (upRun.active /\ upRun.n > 0)
        => heli.targetHeight = upRun.base + upRun.n * HEIGHT_CHANGE_SPEED

\* C9 as the code has it: the same, provided the collision response fired in
\* none of those ticks.
C9_UpRaisesTargetUnlessClamped ==
    (upRun.active /\ upRun.n > 0 /\ ~upRun.clamped)
        => heli.targetHeight = upRun.base + upRun.n * HEIGHT_CHANGE_SPEED

\* Three up-only ticks from rest over a registered ground, none clamped.
C9_Witness ==
    /\ GroundRegistered
    /\ upRun.active
    /\ upRun.n = MaxFrames
    /\ ~upRun.clamped
    /\ OnlyUp(tick.controls)
    /\ heli.targetHeight > INITIAL_HEIGHT

\* the floor of the last tick: MIN_HEIGHT above the ground it sensed
Floor == tick.groundHeight + MIN_HEIGHT

C16_CarrierAboveFloor ==
    frames > 0 =>
        /\ heli.position.y >= Floor
        /\ tick.nextY <= Floor =>
              /\ heli.position.y = Floor
              /\ heli.velocity.y = 0
              /\ heli.targetHeight = Floor

\* A carrier that came down at the speed limit onto a registered platform
\* and was put on the floor above it.
C16_Witness ==
    /\ frames > 0
    /\ GroundRegistered
    /\ tick.groundHeight = SurfaceTop
    /\ tick.before.velocity.y = -MAX_VERTICAL_SPEED
    /\ tick.before.position.y > Floor
    /\ tick.nextY < Floor
    /\ heli.position.y = Floor
    /\ heli.velocity.y = 0

\* C27: after every Helicopter.update the carrier's height is at least
\* 2 * MIN_HEIGHT, whatever is registered, the ground height sensed in a tick
\* never being below MIN_HEIGHT.
C27_CarrierAboveTwiceMinHeight ==
    frames > 0 =>
        /\ tick.groundHeight >= MIN_HEIGHT
        /\ heli.position.y >= 2 * MIN_HEIGHT

\* over an empty registry, a tick that would have taken the carrier below
\* 2 * MIN_HEIGHT and put it there
C27_Witness ==
    /\ frames > 0
    /\ collidableMeshes = <<>>
    /\ tick.before.position.y > 2 * MIN_HEIGHT
    /\ tick.nextY < 2 * MIN_HEIGHT
    /\ heli.position.y = 2 * MIN_HEIGHT

\* C17: after every Helicopter.update the horizontal speed is at most
\* MAX_HORIZONTAL_SPEED and the vertical speed at most MAX_VERTICAL_SPEED.
C17_SpeedLimited ==
    frames > 0 =>
        /\ Abs(heli.velocity.x) <= MAX_HORIZONTAL_SPEED
        /\ Abs(heli.velocity.y) <= MAX_VERTICAL_SPEED

\* A tick in which the damped vertical velocity was over the limit and the
\* carrier, clear of the floor, was left at the limit.
C17_Witness ==
    /\ frames > 0
    /\ tick.nextY > Floor
    /\ Scale(tick.before.velocity.y + heli.acceleration.y, VERTICAL_DAMPING)
           > MAX_VERTICAL_SPEED
    /\ heli.velocity.y = MAX_VERTICAL_SPEED

\* the roll the last tick steered for, before and after its clamp
RawTargetRoll == -(heli.velocity.x - tick.before.velocity.x) * ROLL_RESPONSE

TargetRoll ==
    IF RawTargetRoll > MAX_ROLL_ANGLE THEN MAX_ROLL_ANGLE
    ELSE IF RawTargetRoll < -MAX_ROLL_ANGLE THEN -MAX_ROLL_ANGLE
    ELSE RawTargetRoll

\* C22: after every Helicopter.update the roll is within MAX_ROLL_ANGLE of
\* level, and it is where the roll before the tick is taken 0.15 of the way
\* to the clamped target: never past the target, and never on a target it
\* was not on already.
C22_RollSmoothed ==
    frames > 0 =>
        LET before == tick.before.currentRoll
        IN  /\ heli.currentRoll <= MAX_ROLL_ANGLE
            /\ heli.currentRoll >= -MAX_ROLL_ANGLE
            /\ heli.currentRoll = before + RoundDiv(15 * (TargetRoll - before), 100)
            /\ before # TargetRoll => heli.currentRoll # TargetRoll
            /\ Abs(TargetRoll - heli.currentRoll) <= Abs(TargetRoll - before)
            /\ heli.rotation.z = heli.currentRoll

\* a tick whose target roll was cut down to MAX_ROLL_ANGLE and that moved a
\* roll the carrier already had part of the way to it
C22_Witness ==
    /\ frames > 0
    /\ Abs(RawTargetRoll) > MAX_ROLL_ANGLE
    /\ tick.before.currentRoll # 0
    /\ heli.currentRoll # tick.before.currentRoll
    /\ heli.currentRoll # TargetRoll

\* the rope of a side as the last tick found it and as it left it, and the
\* side's winch intents in that tick
RopeBefore(side) == IF side = "left" THEN tick.leftBefore ELSE tick.rightBefore

RopeAfter(side) == IF side = "left" THEN leftRope ELSE rightRope

AnchorGiven(side) == IF side = "left" THEN tick.leftAnchor ELSE tick.rightAnchor

RetractIntent(side) == IF side = "left" THEN tick.controls.q ELSE tick.controls.e

ExtendIntent(side) == IF side = "left" THEN tick.controls.a ELSE tick.controls.d

\* C11: in every tick and for each rope, an extend intent that is the active
\* one moves targetLength by one extend(), an active retract intent by one
\* retract(), and with neither active targetLength is as the tick found it and
\* a length equal to its target stays where it is.
C11_WinchIntents ==
    frames > 0 =>
        \A side \in {"left", "right"} :
            /\ (ExtendIntent(side) /\ ~RetractIntent(side)) =>
                  RopeAfter(side).targetLength
                      = Min(RopeBefore(side).targetLength + EXTEND_SPEED, MAX_LENGTH)
            /\ RetractIntent(side) =>
                  RopeAfter(side).targetLength
                      = Max(RopeBefore(side).targetLength - EXTEND_SPEED, MIN_LENGTH)
            /\ (~ExtendIntent(side) /\ ~RetractIntent(side)) =>
                  /\ RopeAfter(side).targetLength = RopeBefore(side).targetLength
                  /\ RopeBefore(side).length = RopeBefore(side).targetLength =>
                        RopeAfter(side).length = RopeBefore(side).length

\* A tick that paid out the left rope's target by one step, the right rope,
\* with no intent and at its target, holding its length.
C11_Witness ==
    /\ frames > 0
    /\ tick.controls.a
    /\ ~tick.controls.q
    /\ leftRope.targetLength = tick.leftBefore.targetLength + EXTEND_SPEED
    /\ ~tick.controls.e
    /\ ~tick.controls.d
    /\ tick.rightBefore.length = tick.rightBefore.targetLength
    /\ rightRope.length = tick.rightBefore.length

\* the other side
Other(side) == IF side = "left" THEN "right" ELSE "left"

\* C28: in every tick a rope's targetLength is what at most one call leaves
\* of it: retract() when the rope's retract intent is active, also with its
\* extend intent active, extend() when only the extend intent is, no call
\* otherwise; the rope's length is ramped toward that target; and neither
\* depends on the intents of the other rope.
C28_OneCallPerRope ==
    frames > 0 =>
        \A side \in {"left", "right"} :
            LET before == RopeBefore(side).targetLength
                target == IF RetractIntent(side)
                          THEN Max(before - EXTEND_SPEED, MIN_LENGTH)
                          ELSE IF ExtendIntent(side)
                          THEN Min(before + EXTEND_SPEED, MAX_LENGTH)
                          ELSE before
                length == RopeBefore(side).length
            IN  /\ RopeAfter(side).targetLength = target
                /\ RopeAfter(side).length
                      = IF length < target THEN Min(length + EXTEND_SPEED, target)
                        ELSE IF length > target THEN Max(length - EXTEND_SPEED, target)
                        ELSE length
                /\ (~RetractIntent(side) /\ ~ExtendIntent(side)) =>
                      RopeAfter(side).targetLength = before

\* a tick with both keys of one rope held and no key of the other: the rope
\* whose keys are held is wound in by one step, the other keeps target and
\* length
C28_Witness ==
    /\ frames > 0
    /\ \E side \in {"left", "right"} :
          /\ RetractIntent(side)
          /\ ExtendIntent(side)
          /\ RopeAfter(side).targetLength = RopeBefore(side).targetLength - EXTEND_SPEED
          /\ ~RetractIntent(Other(side))
          /\ ~ExtendIntent(Other(side))
          /\ RopeAfter(Other(side)).targetLength = RopeBefore(Other(side)).targetLength
          /\ RopeAfter(Other(side)).length = RopeBefore(Other(side)).length

C21_SameWinchAction ==
    frames > 0 =>
        \A side \in {"left", "right"} :
            FlagAction(tick.flags[side])
                = IntentAction(RetractIntent(side), ExtendIntent(side))

\* C18: in every tick the anchor point handed to each Rope.update is the
\* rope's local offset transformed by the carrier's pose as that tick's
\* position and rotation update left it.
C18_AnchorsFromCurrentPose ==
    frames > 0 =>
        /\ tick.leftAnchor = LeftAnchor(PoseOf(heli))
        /\ tick.rightAnchor = RightAnchor(PoseOf(heli))

-----------------------------------------------------------------------------
(* Claims about the collision index                                        *)

\* the surfaces a query returned
Returned(result) == {result[k].id : k \in 1..Len(result)}

\* C13: after every sequence of registerCollidable, unregisterCollidable and
\* clear calls, getInPlaneMeshes() returns exactly the registered surfaces
\* that carry at least one of GROUND, WALLS, OBSTACLES, PLATFORMS.
C13_InPlaneExactlyRegistered ==
    Returned(getInPlaneMeshes)
        = {id \in MeshIds : /\ registered[id].present
                            /\ registered[id].tags \cap TagsOf(InPlaneLayers) # {}}

\* the places of the entries of the mesh of the last call in the registry
\* that call found
EntriesBefore == {k \in 1..Len(call.before) : call.before[k].mesh = call.mesh}

\* the mesh of the last call is among the meshes of the registry's entries,
\* and so is returned by the query for the layers it is tagged with
StillListed == \E k \in 1..Len(collidableMeshes) : collidableMeshes[k].mesh = call.mesh

\* what C24 says of the registry that unregisterCollidable leaves: the
\* earliest entry of the mesh is gone, the others are in their order
OnlyFirstEntryRemoved ==
    IF EntriesBefore = {} THEN collidableMeshes = call.before
    ELSE LET first == CHOOSE k \in EntriesBefore : \A j \in EntriesBefore : k <= j
         IN  /\ Len(collidableMeshes) = Len(call.before) - 1
             /\ \A k \in 1..Len(collidableMeshes) :
                   collidableMeshes[k] = call.before[IF k < first THEN k ELSE k + 1]

C14_ReadsLeaveIndex ==
    /\ call.name \in {"query", "tick"} => collidableMeshes = call.before
    /\ (call.name = "query" /\ call.prior.name = "query"
            /\ call.prior.layers = call.layers) =>
          call.result = call.prior.result

\* After a tick over a registry with entries, a query that found a surface
\* is repeated.
C14_Witness ==
    /\ frames > 0
    /\ call.name = "query"
    /\ call.prior.name = "query"
    /\ call.prior.layers = call.layers
    /\ call.result # <<>>
    /\ collidableMeshes = call.before

-----------------------------------------------------------------------------
(* Claims about the winch flags                                            *)

Sides == {"left", "right"}

\* C10: for each winch, after any sequence of key-down and key-up events the
\* flags isExtending and isRetracting are never both true.
C10_FlagsExclusive ==
    \A side \in Sides : ~(ropes[side].isExtending /\ ropes[side].isRetracting)

\* A winch whose two keys are both held: the later key-down set its flag and
\* cleared the flag the earlier one had set.
C10_Witness ==
    /\ {"KeyQ", "KeyA"} \subseteq keys
    /\ ropes.left.isRetracting
    /\ ~ropes.left.isExtending

=============================================================================
